---- MODULE Spec2Model ----
(***************************************************************************)
(* A model of the stockfish trading bot (src/stockfish/trader.py):         *)
(* Trader.run, the crossover signals, order_by_vwap, and the module-level  *)
(* helpers (best bid/ask, VWAP, moving average, order placement, sweeps).  *)
(*                                                                         *)
(* Python values are modelled as follows.                                  *)
(*   dict            a TLA+ function; its keys are its DOMAIN              *)
(*   list            a sequence, oldest first                              *)
(*   None            the empty tuple <<>>; a present value v is <<v>>      *)
(*   float           an exact rational <<num, den>> in lowest terms with   *)
(*                   den > 0 (the rounding of IEEE doubles is not          *)
(*                   modelled)                                             *)
(*   a raised error  its class name in the variable raised                 *)
(***************************************************************************)
EXTENDS Integers, Sequences, FiniteSets, TLC

VARIABLES
    \* Trader.__init__, trader.py 12-24: the fields of the Trader object
    ask_price, bid_price,
    vwap_bid_prices, vwap_ask_prices,
    large_ask_averages, small_ask_averages,
    large_bid_averages, small_bid_averages,
    \* one call of Trader.run: its argument, what it returned or raised,
    \* and what the two order_condition() calls of line 129 returned
    state, result, raised, fired,
    nticks, pc,
    \* per instrument, what the order_condition() calls returned on each of
    \* its ticks so far, oldest first
    signals,
    \* one call of a sweep function: its arguments and the orders list
    sweep_depth, sweep_quantity, sweep_orders, sweep_raised, sweep_pc,
    \* one call of the order book helpers of trader.py and of utils.py on the
    \* same book: the book and what each returned
    book_depth, book_out, book_pc

trader_vars == <<ask_price, bid_price, vwap_bid_prices, vwap_ask_prices,
                 large_ask_averages, small_ask_averages,
                 large_bid_averages, small_bid_averages>>
call_vars == <<state, result, raised, fired, nticks, pc, signals>>
sweep_vars == <<sweep_depth, sweep_quantity, sweep_orders, sweep_raised, sweep_pc>>
book_vars == <<book_depth, book_out, book_pc>>
vars == <<trader_vars, call_vars, sweep_vars, book_vars>>

----------------------------------------------------------------------------
(* Bounds of the model *)

\* ticks (calls of Trader.run) in one behaviour
MaxTicks == 5
\* ticks in one behaviour of the specification with the widest inputs
MaxRouterTicks == 3
\* ticks in one behaviour of the specification of the repeated signals
MaxEdgeTicks == 7
\* largest resting quantity of a level, and largest target, given to a sweep
MaxSweepQty == 5
MaxSweepTarget == 8
\* largest magnitude of a quantity in a book given to the order book helpers
MaxHelperQty == 2

\* Trader.window_size_small / window_size_large are 100 and 500 in the
\* source; the model runs the same code with small windows that keep
\* 2 <= window_size_small < window_size_large.
window_size_small == 2
window_size_large == 3

----------------------------------------------------------------------------
(* Python built-ins *)

None == <<>>
Some(v) == <<v>>

abs(x) == IF x < 0 THEN -x ELSE x
min2(a, b) == IF b < a THEN b ELSE a
max2(a, b) == IF b > a THEN b ELSE a

\* min(d) and max(d) of a non-empty dict: over its keys
min_key(d) == CHOOSE k \in DOMAIN d : \A j \in DOMAIN d : k <= j
max_key(d) == CHOOSE k \in DOMAIN d : \A j \in DOMAIN d : k >= j

RECURSIVE gcd(_, _)
gcd(a, b) == IF b = 0 THEN a ELSE gcd(b, a % b)

\* true division n / d (d # 0), as a rational in lowest terms
Div(n, d) ==
    LET g == gcd(abs(n), abs(d))
        s == IF d < 0 THEN -1 ELSE 1
    IN  <<(s * n) \div g, (s * d) \div g>>
FromInt(n) == <<n, 1>>
Add(a, b) == Div(a[1] * b[2] + b[1] * a[2], a[2] * b[2])
DivInt(a, w) == Div(a[1], a[2] * w)
Less(a, b) == a[1] * b[2] < b[1] * a[2]

\* sum(...) of a list of floats
RECURSIVE sum(_)
sum(s) == IF s = <<>> THEN FromInt(0) ELSE Add(s[1], sum(Tail(s)))

\* dict.get(key, default)
get(d, k, default) == IF k \in DOMAIN d THEN d[k] ELSE default

\* d[k] = v
put(d, k, v) == [j \in DOMAIN d \cup {k} |-> IF j = k THEN v ELSE d[j]]

EmptyDict == [k \in {} |-> 0]

----------------------------------------------------------------------------
(* datamodel.Order and the order placement helpers *)

Order(symbol, price, quantity) ==
    [symbol |-> symbol, price |-> price, quantity |-> quantity]

\* trader.py 235-241
place_buy_order(product, orders, price, quantity) ==
    Append(orders, Order(product, price, abs(quantity)))

\* trader.py 270-276
place_sell_order(product, orders, price, quantity) ==
    Append(orders, Order(product, price, -abs(quantity)))

\* trader.py 251-258: the loop of place_buy_orders_up_to from `price` on
RECURSIVE buy_loop(_, _, _, _, _, _)
buy_loop(product, orders, quantity, order_depth, price, finish) ==
    IF price > finish THEN orders
    ELSE IF price \in DOMAIN order_depth.sell_orders
    THEN LET best_ask_volume == abs(order_depth.sell_orders[price])
             q == min2(quantity, best_ask_volume)
             placed == place_buy_order(product, orders, price, q)
             left == q - best_ask_volume
         IN  IF left <= 0 THEN placed
             ELSE buy_loop(product, placed, left, order_depth, price + 1, finish)
    ELSE buy_loop(product, orders, quantity, order_depth, price + 1, finish)

\* trader.py 244-258; min() of an empty dict raises ValueError
place_buy_orders_up_to(product, orders, quantity, order_depth) ==
    IF DOMAIN order_depth.sell_orders = {}
    THEN [orders |-> orders, raised |-> "ValueError"]
    ELSE [orders |-> buy_loop(product, orders, abs(quantity), order_depth,
                              min_key(order_depth.sell_orders),
                              max_key(order_depth.sell_orders)),
          raised |-> "none"]

\* trader.py 286-293: the loop of place_sell_orders_up_to from `price` down
RECURSIVE sell_loop(_, _, _, _, _, _)
sell_loop(product, orders, quantity, order_depth, price, finish) ==
    IF price < finish THEN orders
    ELSE IF price \in DOMAIN order_depth.buy_orders
    THEN LET best_bid_volume == abs(order_depth.buy_orders[price])
             q == min2(quantity, best_bid_volume)
             placed == place_sell_order(product, orders, price, q)
             left == q - best_bid_volume
         IN  IF left <= 0 THEN placed
             ELSE sell_loop(product, placed, left, order_depth, price - 1, finish)
    ELSE sell_loop(product, orders, quantity, order_depth, price - 1, finish)

\* trader.py 279-293
place_sell_orders_up_to(product, orders, quantity, order_depth) ==
    IF DOMAIN order_depth.buy_orders = {}
    THEN [orders |-> orders, raised |-> "ValueError"]
    ELSE [orders |-> sell_loop(product, orders, abs(quantity), order_depth,
                               max_key(order_depth.buy_orders),
                               min_key(order_depth.buy_orders)),
          raised |-> "none"]

----------------------------------------------------------------------------
(* The order book helpers of trader.py *)

\* trader.py 161-169: (best_bid, best_bid_volume), or (None, None)
get_best_bid(order_depth) ==
    IF DOMAIN order_depth.buy_orders = {}
    THEN <<None, None>>
    ELSE LET best_bid == max_key(order_depth.buy_orders)
         IN  <<Some(best_bid), Some(order_depth.buy_orders[best_bid])>>

\* trader.py 172-180: (best_ask, best_ask_volume), or (None, None)
get_best_ask(order_depth) ==
    IF DOMAIN order_depth.sell_orders = {}
    THEN <<None, None>>
    ELSE LET best_ask == min_key(order_depth.sell_orders)
         IN  <<Some(best_ask), Some(order_depth.sell_orders[best_ask])>>

\* the two accumulators of get_vwap over the keys in `keys`
RECURSIVE weighted_sum(_, _)
weighted_sum(orders, keys) ==
    IF keys = {} THEN 0
    ELSE LET price == CHOOSE k \in keys : TRUE
         IN  price * orders[price] + weighted_sum(orders, keys \ {price})

RECURSIVE quantity_sum(_, _)
quantity_sum(orders, keys) ==
    IF keys = {} THEN 0
    ELSE LET price == CHOOSE k \in keys : TRUE
         IN  orders[price] + quantity_sum(orders, keys \ {price})

\* line 232 without its guard: the division raises on a zero quantity_sum
get_vwap_unguarded(orders) ==
    IF quantity_sum(orders, DOMAIN orders) = 0
    THEN "ZeroDivisionError"
    ELSE Div(weighted_sum(orders, DOMAIN orders), quantity_sum(orders, DOMAIN orders))

\* trader.py 222-232
get_vwap(orders) ==
    IF quantity_sum(orders, DOMAIN orders) # 0
    THEN Div(weighted_sum(orders, DOMAIN orders), quantity_sum(orders, DOMAIN orders))
    ELSE FromInt(0)

\* line 210 averaging prices[:window_size], the oldest values
get_moving_average_oldest(prices, window_size) ==
    LET w == min2(Len(prices), window_size)
    IN  DivInt(sum(SubSeq(prices, 1, w)), w)

\* trader.py 205-210, for a non-empty list (an empty one divides by zero)
get_moving_average(prices, window_size) ==
    LET w == min2(Len(prices), window_size)
    IN  DivInt(sum(SubSeq(prices, Len(prices) - w + 1, Len(prices))), w)

----------------------------------------------------------------------------
(* The order book helpers of utils.py (class Util) *)

\* utils.py 7-15
Util_get_best_bid(order_depth) ==
    IF DOMAIN order_depth.buy_orders = {}
    THEN <<None, None>>
    ELSE LET best_bid == max_key(order_depth.buy_orders)
         IN  <<Some(best_bid), Some(order_depth.buy_orders[best_bid])>>

\* utils.py 19-27: the volume is negated
Util_get_best_ask(order_depth) ==
    IF DOMAIN order_depth.sell_orders = {}
    THEN <<None, None>>
    ELSE LET best_ask == min_key(order_depth.sell_orders)
         IN  <<Some(best_ask), Some(-order_depth.sell_orders[best_ask])>>

\* utils.py 62-72
Util_get_vwap(orders) ==
    IF quantity_sum(orders, DOMAIN orders) # 0
    THEN Div(weighted_sum(orders, DOMAIN orders), quantity_sum(orders, DOMAIN orders))
    ELSE FromInt(0)

----------------------------------------------------------------------------
(* class Trader *)

Products == {"PEARLS", "BANANAS", "COCONUTS"}

\* trader.py 12
position_limit == [p \in {"PEARLS", "BANANAS"} |-> 20]

\* the Trader object as one record
Self ==
    [ask_price |-> ask_price, bid_price |-> bid_price,
     vwap_bid_prices |-> vwap_bid_prices, vwap_ask_prices |-> vwap_ask_prices,
     large_ask_averages |-> large_ask_averages,
     small_ask_averages |-> small_ask_averages,
     large_bid_averages |-> large_bid_averages,
     small_bid_averages |-> small_bid_averages]

\* trader.py 11-24
NewTrader ==
    [ask_price |-> EmptyDict, bid_price |-> EmptyDict,
     vwap_bid_prices |-> EmptyDict, vwap_ask_prices |-> EmptyDict,
     large_ask_averages |-> EmptyDict, small_ask_averages |-> EmptyDict,
     large_bid_averages |-> EmptyDict, small_bid_averages |-> EmptyDict]

\* trader.py 92-97: None stands for the IndexError of [-2] on a short list
get_crossover_data(large_averages, small_averages) ==
    IF Len(large_averages) < 2 \/ Len(small_averages) < 2
    THEN None
    ELSE <<large_averages[Len(large_averages)],
           small_averages[Len(small_averages)],
           large_averages[Len(large_averages) - 1],
           small_averages[Len(small_averages) - 1]>>

\* line 79 missing: no warm-up gate before get_crossover_data
sell_condition_ungated(large_averages, small_averages) ==
    LET d == get_crossover_data(large_averages, small_averages)
    IN  IF d = None
        THEN [raised |-> "IndexError", value |-> FALSE]
        ELSE [raised |-> "none",
              value |-> Less(d[2], d[1]) /\ Less(d[3], d[4])]

\* line 90 without its second conjunct: the level, not the edge
buy_condition_level(large_averages, small_averages) ==
    IF Len(large_averages) < window_size_small
    THEN [raised |-> "none", value |-> FALSE]
    ELSE LET d == get_crossover_data(large_averages, small_averages)
         IN  IF d = None
             THEN [raised |-> "IndexError", value |-> FALSE]
             ELSE [raised |-> "none", value |-> Less(d[1], d[2])]

\* line 90 with <= for the first <
buy_condition_nonstrict(large_averages, small_averages) ==
    IF Len(large_averages) < window_size_small
    THEN [raised |-> "none", value |-> FALSE]
    ELSE LET d == get_crossover_data(large_averages, small_averages)
         IN  IF d = None
             THEN [raised |-> "IndexError", value |-> FALSE]
             ELSE [raised |-> "none",
                   value |-> ~Less(d[2], d[1]) /\ Less(d[4], d[3])]

\* trader.py 79-82 / 87-90 on the two series of one side
sell_condition(large_averages, small_averages) ==
    IF Len(large_averages) < window_size_small
    THEN [raised |-> "none", value |-> FALSE]
    ELSE LET d == get_crossover_data(large_averages, small_averages)
         IN  IF d = None
             THEN [raised |-> "IndexError", value |-> FALSE]
             ELSE [raised |-> "none",
                   value |-> Less(d[2], d[1]) /\ Less(d[3], d[4])]

buy_condition(large_averages, small_averages) ==
    IF Len(large_averages) < window_size_small
    THEN [raised |-> "none", value |-> FALSE]
    ELSE LET d == get_crossover_data(large_averages, small_averages)
         IN  IF d = None
             THEN [raised |-> "IndexError", value |-> FALSE]
             ELSE [raised |-> "none",
                   value |-> Less(d[1], d[2]) /\ Less(d[4], d[3])]

\* trader.py 76-82
sell_signal(self, product) ==
    sell_condition(self.large_bid_averages[product], self.small_bid_averages[product])

\* trader.py 84-90
buy_signal(self, product) ==
    buy_condition(self.large_ask_averages[product], self.small_ask_averages[product])

\* line 133 missing: the list is reset on every call
init_list_always(product, lst) == put(lst, product, <<>>)

\* trader.py 132-134
init_list(product, lst) ==
    IF product \notin DOMAIN lst THEN put(lst, product, <<>>) ELSE lst

\* lst[product].append(value)
append(lst, product, value) == put(lst, product, Append(lst[product], value))

\* line 137 with <= for <
not_enough_data_inclusive(product, prices) ==
    Len(prices[product]) <= window_size_large

\* trader.py 136-137
not_enough_data(product, prices) ==
    Len(prices[product]) < window_size_large

\* the three dicts order_by_vwap is handed for a side: Trader.run passes the
\* bid dicts with order_depth.buy_orders and the ask dicts with sell_orders
series(self, side) ==
    IF side = "bid"
    THEN [prices |-> self.vwap_bid_prices,
          large_averages |-> self.large_bid_averages,
          small_averages |-> self.small_bid_averages]
    ELSE [prices |-> self.vwap_ask_prices,
          large_averages |-> self.large_ask_averages,
          small_averages |-> self.small_ask_averages]

with_series(self, side, prices, large_averages, small_averages) ==
    IF side = "bid"
    THEN [self EXCEPT !.vwap_bid_prices = prices,
                      !.large_bid_averages = large_averages,
                      !.small_bid_averages = small_averages]
    ELSE [self EXCEPT !.vwap_ask_prices = prices,
                      !.large_ask_averages = large_averages,
                      !.small_ask_averages = small_averages]

\* trader.py 125-128, after the append of line 124
record_averages(self, side, product, prices, large_averages, small_averages) ==
    IF not_enough_data(product, prices)
    THEN [self |-> with_series(self, side, prices, large_averages, small_averages),
          reached |-> FALSE]
    ELSE [self |->
            with_series(self, side, prices,
                append(large_averages, product,
                       get_moving_average(prices[product], window_size_large)),
                append(small_averages, product,
                       get_moving_average(prices[product], window_size_small))),
          reached |-> TRUE]

\* trader.py 121-128: the Trader after the call, and whether line 129 is reached
observe(self, side, product, book) ==
    record_averages(self, side, product,
        append(init_list(product, series(self, side).prices), product, get_vwap(book)),
        init_list(product, series(self, side).large_averages),
        init_list(product, series(self, side).small_averages))

\* the lambdas of trader.py 57 and 67
order_condition(self, side, product) ==
    IF side = "bid" THEN sell_signal(self, product) ELSE buy_signal(self, product)

\* the lambdas of trader.py 58 and 68
place_order_function(side, product, orders, price, volume) ==
    IF side = "bid"
    THEN place_sell_order(product, orders, price, volume)
    ELSE place_buy_order(product, orders, price, volume)

\* trader.py 129-130 with the value (or the error) of order_condition()
place_if(self, c, side, product, orders, price, volume) ==
    [self |-> self, raised |-> c.raised, fired |-> c.value,
     orders |-> IF c.raised = "none" /\ c.value
                THEN place_order_function(side, product, orders, price, volume)
                ELSE orders]

\* trader.py 125-130 with the outcome o of lines 121-128
decide(o, side, product, orders, price, volume) ==
    IF o.reached
    THEN place_if(o.self, order_condition(o.self, side, product),
                  side, product, orders, price, volume)
    ELSE [self |-> o.self, raised |-> "none", fired |-> FALSE, orders |-> orders]

\* trader.py 115-130
order_by_vwap(self, side, product, book, orders, price, volume) ==
    decide(observe(self, side, product, book), side, product, orders, price, volume)

\* trader.py 36-37
buy_headroom(limit, position) == limit - position
sell_headroom(limit, position) == limit + position

\* line 40 without the clip to the buy headroom
clip_ask_volume_unclipped(best_ask_volume, buy_volume) == -best_ask_volume

\* trader.py 40-41, both volumes present
clip_ask_volume(best_ask_volume, buy_volume) == min2(-best_ask_volume, buy_volume)
clip_bid_volume(best_bid_volume, sell_volume) == min2(best_bid_volume, sell_volume)

\* line 42 storing the latest best ask
ask_floor_latest(self, product, best_ask) == best_ask

\* trader.py 42-43
ask_floor(self, product, best_ask) ==
    min2(get(self.ask_price, product, best_ask), best_ask)
bid_ceiling(self, product, best_bid) ==
    max2(get(self.bid_price, product, best_bid), best_bid)

update_prices(self, product, best_ask, best_bid) ==
    [self EXCEPT !.ask_price = put(@, product, ask_floor(self, product, best_ask)),
                 !.bid_price = put(@, product, bid_ceiling(self, product, best_bid))]

\* trader.py 45-48: the PEARLS branch
pearls_orders(self, product, orders, buy_volume, sell_volume) ==
    IF self.ask_price[product] < self.bid_price[product]
    THEN place_sell_order(product,
             place_buy_order(product, orders, self.ask_price[product], buy_volume),
             self.bid_price[product], sell_volume)
    ELSE orders

\* trader.py 49-69 after both order_by_vwap calls returned
bananas_done(b, a) ==
    [self |-> a.self, orders |-> a.orders, raised |-> a.raised,
     fired |-> IF a.raised = "none"
               THEN Some([sell |-> b.fired, buy |-> a.fired])
               ELSE None]

\* trader.py 61-69 with the outcome b of the bid-side call of lines 51-59
bananas_ask(b, product, order_depth, best_ask, best_ask_volume) ==
    IF b.raised # "none"
    THEN [self |-> b.self, orders |-> b.orders, raised |-> b.raised, fired |-> None]
    ELSE bananas_done(b, order_by_vwap(b.self, "ask", product, order_depth.sell_orders,
                                       b.orders, best_ask, best_ask_volume))

\* trader.py 45-71 with the values of lines 33-43
strategy(self, product, order_depth, orders, buy_volume, sell_volume, best_ask, best_ask_volume, best_bid, best_bid_volume) ==
    IF product = "PEARLS"
    THEN [self |-> self, raised |-> "none", fired |-> None,
          orders |-> pearls_orders(self, product, orders, buy_volume, sell_volume)]
    ELSE IF product = "BANANAS"
    THEN bananas_ask(order_by_vwap(self, "bid", product, order_depth.buy_orders,
                                   orders, best_bid, best_bid_volume),
                     product, order_depth, best_ask, best_ask_volume)
    ELSE [self |-> self, orders |-> orders, raised |-> "none", fired |-> None]

\* trader.py 40-71 with the values of lines 33-39.  -None (line 40) and
\* min(None, int) (line 41) raise TypeError before any field is written.
loop_body(self, product, order_depth, buy_volume, sell_volume, ask, bid) ==
    IF ask[2] = None \/ bid[2] = None
    THEN [self |-> self, orders |-> <<>>, raised |-> "TypeError", fired |-> None]
    ELSE strategy(update_prices(self, product, ask[1][1], bid[1][1]),
                  product, order_depth, <<>>, buy_volume, sell_volume,
                  ask[1][1], clip_ask_volume(ask[2][1], buy_volume),
                  bid[1][1], clip_bid_volume(bid[2][1], sell_volume))

\* trader.py 33-71: one pass of the loop body of Trader.run
run_product(self, product, order_depth, position) ==
    loop_body(self, product, order_depth,
              buy_headroom(get(position_limit, product, 0), get(position, product, 0)),
              sell_headroom(get(position_limit, product, 0), get(position, product, 0)),
              get_best_ask(order_depth), get_best_bid(order_depth))

\* trader.py 32-71: the loop over state.order_depths.items() from item i on;
\* an exception leaves the fields written so far and returns nothing
RECURSIVE run_loop(_, _, _, _, _)

\* trader.py 71 and the next pass, with the outcome r of the pass for item i
loop_next(r, st, i, result_, fired_) ==
    IF r.raised # "none"
    THEN [self |-> r.self, result |-> result_, raised |-> r.raised, fired |-> fired_]
    ELSE run_loop(r.self, st, i + 1, put(result_, st.order_depths[i][1], r.orders),
                  IF r.fired = None THEN fired_
                  ELSE put(fired_, st.order_depths[i][1], r.fired[1]))

run_loop(self, st, i, result_, fired_) ==
    IF i > Len(st.order_depths)
    THEN [self |-> self, result |-> result_, raised |-> "none", fired |-> fired_]
    ELSE loop_next(run_product(self, st.order_depths[i][1], st.order_depths[i][2],
                               st.position),
                   st, i, result_, fired_)

\* trader.py 73: logger.flush(state, orders) reads the loop variable `orders`,
\* which is unbound when state.order_depths is empty: UnboundLocalError
flush(r, st) ==
    IF r.raised = "none" /\ Len(st.order_depths) = 0
    THEN [r EXCEPT !.raised = "UnboundLocalError"]
    ELSE r

\* trader.py 26-74
run_call(self, st) == flush(run_loop(self, st, 1, EmptyDict, EmptyDict), st)

----------------------------------------------------------------------------
(* The state machine *)

\* Trader() and no call made yet
InitTrader ==
    /\ ask_price = NewTrader.ask_price
    /\ bid_price = NewTrader.bid_price
    /\ vwap_bid_prices = NewTrader.vwap_bid_prices
    /\ vwap_ask_prices = NewTrader.vwap_ask_prices
    /\ large_ask_averages = NewTrader.large_ask_averages
    /\ small_ask_averages = NewTrader.small_ask_averages
    /\ large_bid_averages = NewTrader.large_bid_averages
    /\ small_bid_averages = NewTrader.small_bid_averages
    /\ state = None
    /\ result = None
    /\ raised = "none"
    /\ fired = EmptyDict
    /\ nticks = 0
    /\ pc = "idle"
    /\ signals = EmptyDict

NoSweep ==
    /\ sweep_depth = None
    /\ sweep_quantity = 0
    /\ sweep_orders = <<>>
    /\ sweep_raised = "none"
    /\ sweep_pc = "off"

NoBook ==
    /\ book_depth = None
    /\ book_out = None
    /\ book_pc = "off"

\* the order_condition() results of one call, filed under their instruments
record_signals(signals_, fired_) ==
    [product \in DOMAIN signals_ \cup DOMAIN fired_ |->
        IF product \in DOMAIN fired_
        THEN Append(get(signals_, product, <<>>), fired_[product])
        ELSE signals_[product]]

\* the harness calls Trader.run(st); the call runs to its return or its raise
call(st) ==
    /\ pc = "idle"
    /\ \E r \in {run_call(Self, st)} :
           /\ ask_price' = r.self.ask_price
           /\ bid_price' = r.self.bid_price
           /\ vwap_bid_prices' = r.self.vwap_bid_prices
           /\ vwap_ask_prices' = r.self.vwap_ask_prices
           /\ large_ask_averages' = r.self.large_ask_averages
           /\ small_ask_averages' = r.self.small_ask_averages
           /\ large_bid_averages' = r.self.large_bid_averages
           /\ small_bid_averages' = r.self.small_bid_averages
           /\ result' = IF r.raised = "none" THEN Some(r.result) ELSE None
           /\ raised' = r.raised
           /\ fired' = r.fired
           /\ signals' = record_signals(signals, r.fired)
    /\ state' = Some(st)
    /\ nticks' = nticks + 1
    /\ pc' = "called"
    /\ UNCHANGED <<sweep_vars, book_vars>>

\* a call within the tick bound of the model
run(st) == nticks < MaxTicks /\ call(st)

\* trader.py 74: the harness takes what the call returned (or raised) and
\* prepares the next tick; the Trader object lives on
next_tick ==
    /\ pc = "called"
    /\ pc' = "idle"
    /\ state' = None
    /\ result' = None
    /\ raised' = "none"
    /\ fired' = EmptyDict
    /\ UNCHANGED <<trader_vars, nticks, signals, sweep_vars, book_vars>>

----------------------------------------------------------------------------
(* The inputs the harness supplies *)

\* prices and resting sizes of the snapshots
BookPrices == 1 .. 2
BookQuantities == 1 .. 2

\* one side of a book with at most one price level; buy_orders hold positive
\* and sell_orders negative quantities
Sides(quantities) ==
    {EmptyDict} \cup {(price :> q) : price \in BookPrices, q \in quantities}

OrderDepths ==
    {[buy_orders |-> b, sell_orders |-> a] :
        b \in Sides(BookQuantities),
        a \in Sides({-q : q \in BookQuantities})}

FullOrderDepths ==
    {d \in OrderDepths : DOMAIN d.buy_orders # {} /\ DOMAIN d.sell_orders # {}}

\* positions at, next to and beyond the limits
Positions(limit) ==
    {-limit - 1, -limit, 1 - limit, limit - 1, limit, limit + 1}

InRange(limit) == {x \in Positions(limit) : -limit <= x /\ x <= limit}

\* state.position: no entry for the product (read as 0), or one entry
PositionDicts(product, positions) ==
    {EmptyDict} \cup {(product :> x) : x \in positions}

\* a TradingState whose order_depths hold one product
TradingStates(product, depths, positions) ==
    {[order_depths |-> <<(<<product, d>>)>>, position |-> pos] :
        d \in depths, pos \in PositionDicts(product, positions)}

\* the TradingStates whose order_depths hold two products, in either order,
\* with unit resting sizes and no position entry
UnitOrderDepths ==
    {d \in OrderDepths :
        /\ \A price \in DOMAIN d.buy_orders : d.buy_orders[price] = 1
        /\ \A price \in DOMAIN d.sell_orders : d.sell_orders[price] = -1}

\* the books of the two-product snapshots: one with the bid below the ask,
\* one with the bid above the ask, and one with both sides empty
PairOrderDepths ==
    {d \in UnitOrderDepths :
        \/ DOMAIN d.buy_orders = {} /\ DOMAIN d.sell_orders = {}
        \/ /\ d \in FullOrderDepths
           /\ DOMAIN d.buy_orders # DOMAIN d.sell_orders}

PairTradingStates ==
    {[order_depths |-> <<(<<pd[1], pd[3]>>), (<<pd[2], pd[4]>>)>>,
      position |-> EmptyDict] :
        pd \in {q \in Products \X Products \X PairOrderDepths \X PairOrderDepths :
                    q[1] # q[2]}}

EmptyTradingState == [order_depths |-> <<>>, position |-> EmptyDict]

----------------------------------------------------------------------------
(* Specifications *)

Init == InitTrader /\ NoSweep /\ NoBook

\* any product, any book (empty sides too), positions beyond the limits too
RouterTick ==
    /\ nticks < MaxRouterTicks
    /\ \/ \E product \in Products :
            \E st \in TradingStates(product, OrderDepths,
                                    Positions(get(position_limit, product, 0))) :
                run(st)
       \/ run(EmptyTradingState)

Next == RouterTick \/ next_tick

Spec == Init /\ [][Next]_vars

\* BANANAS on two-sided books with positions at, next to and beyond the
\* limits, long enough for the moving averages to cross
CrossTick ==
    \E st \in TradingStates("BANANAS", FullOrderDepths,
                            Positions(position_limit["BANANAS"])) :
        run(st)

NextCross == CrossTick \/ next_tick

SpecCross == Init /\ [][NextCross]_vars

\* BANANAS and PEARLS on two-sided books with positions inside the limits
HeadroomTick ==
    \E product \in {"BANANAS", "PEARLS"} :
        \E st \in TradingStates(product, FullOrderDepths,
                                InRange(position_limit[product])) :
            run(st)

NextHeadroom == HeadroomTick \/ next_tick

SpecHeadroom == Init /\ [][NextHeadroom]_vars

\* BANANAS on two-sided books whose best level may rest with a quantity of 0
ZeroOrderDepths ==
    {[buy_orders |-> (1 :> b), sell_orders |-> (price :> a)] :
        b \in {0, 1}, price \in BookPrices, a \in {0, -1}}

ZeroTick ==
    \E st \in TradingStates("BANANAS", ZeroOrderDepths, {}) : run(st)

NextZero == ZeroTick \/ next_tick

SpecZero == Init /\ [][NextZero]_vars

\* BANANAS on two-sided books of unit resting size and no position entry,
\* long enough for a signal to fire twice
EdgeTick ==
    /\ nticks < MaxEdgeTicks
    /\ \E st \in TradingStates("BANANAS", UnitOrderDepths \cap FullOrderDepths, {}) :
           call(st)

NextEdge == EdgeTick \/ next_tick

SpecEdge == Init /\ [][NextEdge]_vars

\* snapshots of one product or of two products, in either iteration order
PairTick ==
    \/ \E st \in PairTradingStates : run(st)
    \/ \E product \in Products :
           \E st \in TradingStates(product, PairOrderDepths, {}) : run(st)

NextPair == PairTick \/ next_tick

SpecPair == Init /\ [][NextPair]_vars

----------------------------------------------------------------------------
(* The sweep functions, called on their own: Trader.run never calls them *)

SweepPrices == 10 .. 12

\* books over SweepPrices; a level may be missing or rest with quantity 0
SweepLevels ==
    UNION {[keys -> 0 .. MaxSweepQty] : keys \in SUBSET SweepPrices}

sweep_book(levels) ==
    [buy_orders |-> levels,
     sell_orders |-> [price \in DOMAIN levels |-> -levels[price]]]

InitSweep ==
    /\ InitTrader
    /\ \E levels \in SweepLevels : sweep_depth = Some(sweep_book(levels))
    /\ sweep_quantity \in 1 .. MaxSweepTarget
    /\ sweep_orders = <<>>
    /\ sweep_raised = "none"
    /\ sweep_pc = "ready"
    /\ NoBook

\* place_buy_orders_up_to(product, [], sweep_quantity, sweep_depth)
sweep_buy ==
    /\ sweep_pc = "ready"
    /\ \E r \in {place_buy_orders_up_to("BANANAS", <<>>, sweep_quantity,
                                        sweep_depth[1])} :
           /\ sweep_orders' = r.orders
           /\ sweep_raised' = r.raised
    /\ sweep_pc' = "bought"
    /\ UNCHANGED <<trader_vars, call_vars, sweep_depth, sweep_quantity, book_vars>>

\* place_sell_orders_up_to(product, [], sweep_quantity, sweep_depth)
sweep_sell ==
    /\ sweep_pc = "ready"
    /\ \E r \in {place_sell_orders_up_to("BANANAS", <<>>, sweep_quantity,
                                         sweep_depth[1])} :
           /\ sweep_orders' = r.orders
           /\ sweep_raised' = r.raised
    /\ sweep_pc' = "sold"
    /\ UNCHANGED <<trader_vars, call_vars, sweep_depth, sweep_quantity, book_vars>>

NextSweep == sweep_buy \/ sweep_sell

SpecSweep == InitSweep /\ [][NextSweep]_vars

----------------------------------------------------------------------------
(* The order book helpers, called on their own with any book: levels may
   rest with a quantity of either sign or of 0 *)

HelperPrices == 1 .. 2

HelperSides ==
    UNION {[keys -> -MaxHelperQty .. MaxHelperQty] : keys \in SUBSET HelperPrices}

InitBook ==
    /\ InitTrader
    /\ NoSweep
    /\ \E b \in HelperSides : \E a \in HelperSides :
           book_depth = Some([buy_orders |-> b, sell_orders |-> a])
    /\ book_out = None
    /\ book_pc = "ready"

\* get_vwap(order_depth.buy_orders) of trader.py and of utils.py
vwap_buy_side ==
    /\ book_pc = "ready"
    /\ book_out' = Some([trader |-> get_vwap(book_depth[1].buy_orders),
                         util |-> Util_get_vwap(book_depth[1].buy_orders)])
    /\ book_pc' = "vwap_buy"
    /\ UNCHANGED <<trader_vars, call_vars, sweep_vars, book_depth>>

\* get_vwap(order_depth.sell_orders) of trader.py and of utils.py
vwap_sell_side ==
    /\ book_pc = "ready"
    /\ book_out' = Some([trader |-> get_vwap(book_depth[1].sell_orders),
                         util |-> Util_get_vwap(book_depth[1].sell_orders)])
    /\ book_pc' = "vwap_sell"
    /\ UNCHANGED <<trader_vars, call_vars, sweep_vars, book_depth>>

\* get_best_bid(order_depth) of trader.py and of utils.py
best_bid_call ==
    /\ book_pc = "ready"
    /\ book_out' = Some([trader |-> get_best_bid(book_depth[1]),
                         util |-> Util_get_best_bid(book_depth[1])])
    /\ book_pc' = "best_bid"
    /\ UNCHANGED <<trader_vars, call_vars, sweep_vars, book_depth>>

\* get_best_ask(order_depth) of trader.py and of utils.py
best_ask_call ==
    /\ book_pc = "ready"
    /\ book_out' = Some([trader |-> get_best_ask(book_depth[1]),
                         util |-> Util_get_best_ask(book_depth[1])])
    /\ book_pc' = "best_ask"
    /\ UNCHANGED <<trader_vars, call_vars, sweep_vars, book_depth>>

NextBook == vwap_buy_side \/ vwap_sell_side \/ best_bid_call \/ best_ask_call

SpecBook == InitBook /\ [][NextBook]_vars

----------------------------------------------------------------------------
(* Properties *)

\* what a list of orders buys and sells in total
RECURSIVE bought(_)
bought(orders) ==
    IF orders = <<>> THEN 0
    ELSE max2(orders[1].quantity, 0) + bought(Tail(orders))

RECURSIVE sold(_)
sold(orders) ==
    IF orders = <<>> THEN 0
    ELSE max2(-orders[1].quantity, 0) + sold(Tail(orders))

\* the call of this tick returned, and its snapshot held `product`
Returned(product) == result # None /\ product \in DOMAIN result[1]

\* the order depth and the position the snapshot of this tick gave `product`
DepthOf(product) ==
    LET i == CHOOSE k \in DOMAIN state[1].order_depths :
                 state[1].order_depths[k][1] = product
    IN  state[1].order_depths[i][2]
PositionOf(product) == get(state[1].position, product, 0)
LimitOf(product) == get(position_limit, product, 0)

\* a < b for two rationals <<num, den>> with den > 0
Lt(a, b) == a[1] * b[2] < b[1] * a[2]

\* C1: on every tick, for every instrument whose position lies within
\* [-limit, +limit], the emitted buy quantities sum to at most
\* limit - position and the emitted sell magnitudes to at most
\* limit + position.
C1_HeadroomRespected ==
    result # None =>
        \A product \in DOMAIN result[1] :
            (-LimitOf(product) <= PositionOf(product)
                /\ PositionOf(product) <= LimitOf(product)) =>
                /\ bought(result[1][product]) <= LimitOf(product) - PositionOf(product)
                /\ sold(result[1][product]) <= LimitOf(product) + PositionOf(product)

\* a BANANAS buy was clipped by the headroom: one unit bought at position
\* limit - 1 from a best ask resting with more
C1_Witness ==
    /\ Returned("BANANAS")
    /\ PositionOf("BANANAS") = LimitOf("BANANAS") - 1
    /\ \E i \in DOMAIN result[1]["BANANAS"] :
           LET o == result[1]["BANANAS"][i]
           IN  /\ o.quantity = 1
               /\ -DepthOf("BANANAS").sell_orders[o.price] > 1

\* C2: every order Trader.run emits has a non-zero quantity.
C2_NoZeroQuantityOrder ==
    result # None =>
        \A product \in DOMAIN result[1] :
            \A i \in DOMAIN result[1][product] :
                result[1][product][i].quantity # 0

\* C3: a tick whose snapshot holds an instrument with an empty buy or sell
\* side raises nothing and returns a result for that instrument.
C3_EmptySideCompletes ==
    state # None =>
        \A i \in DOMAIN state[1].order_depths :
            (\/ DOMAIN state[1].order_depths[i][2].buy_orders = {}
             \/ DOMAIN state[1].order_depths[i][2].sell_orders = {}) =>
                /\ raised = "none"
                /\ Returned(state[1].order_depths[i][1])

\* C4: with two-sided books, a position above the limit yields no buy
\* order, a position below -limit no sell order, and nothing is raised.
C4_NoOrderBeyondLimit ==
    state # None =>
        \A i \in DOMAIN state[1].order_depths :
            LET product == state[1].order_depths[i][1]
                depth == state[1].order_depths[i][2]
            IN  (DOMAIN depth.buy_orders # {} /\ DOMAIN depth.sell_orders # {}) =>
                    /\ raised = "none"
                    /\ Returned(product)
                    /\ PositionOf(product) > LimitOf(product) =>
                           bought(result[1][product]) = 0
                    /\ PositionOf(product) < -LimitOf(product) =>
                           sold(result[1][product]) = 0

\* the total resting size of one side of a book
RECURSIVE resting(_, _)
resting(book, keys) ==
    IF keys = {} THEN 0
    ELSE LET price == CHOOSE k \in keys : TRUE
         IN  abs(book[price]) + resting(book, keys \ {price})

\* C5 for one sweep: one order per consumed level, prices strictly in sweep
\* order, each quantity at most the level's resting size and of the sweep's
\* sign, summing to min(target, total resting size).
SweepExact(book, orders, target, sign) ==
    /\ \A i \in DOMAIN orders :
           /\ orders[i].price \in DOMAIN book
           /\ sign * orders[i].quantity >= 0
           /\ abs(orders[i].quantity) <= abs(book[orders[i].price])
    /\ \A i \in DOMAIN orders : \A j \in DOMAIN orders :
           i < j => sign * orders[i].price < sign * orders[j].price
    /\ bought(orders) + sold(orders) = min2(target, resting(book, DOMAIN book))
    /\ bought(orders) + sold(orders) <= target

\* a non-empty side whose levels all rest with a quantity other than 0
Resting(book) == DOMAIN book # {} /\ \A price \in DOMAIN book : book[price] # 0

\* C5: on a non-empty book with a target above 0 the buy sweep (ascending,
\* positive quantities) and the sell sweep (descending, negative quantities)
\* fill min(target, total resting size), one order per consumed level.
C5_SweepFillsTarget ==
    /\ (sweep_pc = "bought" /\ Resting(sweep_depth[1].sell_orders)) =>
           SweepExact(sweep_depth[1].sell_orders, sweep_orders, sweep_quantity, 1)
    /\ (sweep_pc = "sold" /\ Resting(sweep_depth[1].buy_orders)) =>
           SweepExact(sweep_depth[1].buy_orders, sweep_orders, sweep_quantity, -1)

\* C6 for one sweep: no order at a level resting with quantity 0, and the
\* sweep goes on past such a level: when the best level rests with 0 and a
\* later one does not, an order is placed at a later level.
ZeroSkipped(book, orders, first) ==
    /\ \A i \in DOMAIN orders : book[orders[i].price] # 0
    /\ (book[first] = 0 /\ \E price \in DOMAIN book : book[price] # 0) =>
           orders # <<>>

\* C6: the sweeps skip a price level whose resting quantity is 0 and
\* continue with the next level.
C6_ZeroLevelSkipped ==
    /\ (sweep_pc = "bought" /\ DOMAIN sweep_depth[1].sell_orders # {}) =>
           ZeroSkipped(sweep_depth[1].sell_orders, sweep_orders,
                       min_key(sweep_depth[1].sell_orders))
    /\ (sweep_pc = "sold" /\ DOMAIN sweep_depth[1].buy_orders # {}) =>
           ZeroSkipped(sweep_depth[1].buy_orders, sweep_orders,
                       max_key(sweep_depth[1].buy_orders))

\* the warm-up gate on the three series of one side
GateHolds(prices, large_averages, small_averages) ==
    /\ DOMAIN large_averages = DOMAIN prices
    /\ DOMAIN small_averages = DOMAIN prices
    /\ \A product \in DOMAIN prices :
           /\ Len(large_averages[product])
                  = max2(0, Len(prices[product]) - window_size_large + 1)
           /\ Len(small_averages[product]) = Len(large_averages[product])

\* C7: after n observations of an instrument and side, the short-window and
\* the long-window series both have length max(0, n - window_size_large + 1).
C7_WarmUpGate ==
    /\ GateHolds(vwap_bid_prices, large_bid_averages, small_bid_averages)
    /\ GateHolds(vwap_ask_prices, large_ask_averages, small_ask_averages)

\* exactly window_size_large observations: exactly one pair of averages
C7_Witness ==
    /\ "BANANAS" \in DOMAIN vwap_ask_prices
    /\ Len(vwap_ask_prices["BANANAS"]) = window_size_large
    /\ Len(large_ask_averages["BANANAS"]) = 1
    /\ Len(small_ask_averages["BANANAS"]) = 1

\* the strict crossing of the last two elements: long below short now and
\* long above short one tick before
CrossedBelow(large_averages, small_averages) ==
    LET n == Len(large_averages)
    IN  /\ Lt(large_averages[n], small_averages[n])
        /\ Lt(small_averages[n - 1], large_averages[n - 1])

CrossedAbove(large_averages, small_averages) ==
    LET n == Len(large_averages)
    IN  /\ Lt(small_averages[n], large_averages[n])
        /\ Lt(large_averages[n - 1], small_averages[n - 1])

\* C8: on a ready pair of series the buy signal is true exactly on a strict
\* crossing of long below short between the last two elements, the sell
\* signal exactly on a strict crossing of long above short, and on one pair
\* of series the two conditions are never both true.
C8_StrictCrossover ==
    "BANANAS" \in DOMAIN fired =>
        /\ Len(large_ask_averages["BANANAS"]) >= window_size_small =>
               /\ fired["BANANAS"].buy <=>
                      CrossedBelow(large_ask_averages["BANANAS"],
                                   small_ask_averages["BANANAS"])
               /\ ~(/\ buy_condition(large_ask_averages["BANANAS"],
                                     small_ask_averages["BANANAS"]).value
                    /\ sell_condition(large_ask_averages["BANANAS"],
                                      small_ask_averages["BANANAS"]).value)
        /\ Len(large_bid_averages["BANANAS"]) >= window_size_small =>
               /\ fired["BANANAS"].sell <=>
                      CrossedAbove(large_bid_averages["BANANAS"],
                                   small_bid_averages["BANANAS"])
               /\ ~(/\ buy_condition(large_bid_averages["BANANAS"],
                                     small_bid_averages["BANANAS"]).value
                    /\ sell_condition(large_bid_averages["BANANAS"],
                                      small_bid_averages["BANANAS"]).value)

\* a strict crossing on the ask side: the buy signal alone fired
C8_Witness ==
    /\ "BANANAS" \in DOMAIN fired
    /\ fired["BANANAS"].buy
    /\ ~fired["BANANAS"].sell
    /\ CrossedBelow(large_ask_averages["BANANAS"], small_ask_averages["BANANAS"])

\* C9: while the average series of an instrument and side holds fewer than
\* window_size_small entries (so on each of the first window_size_large +
\* window_size_small - 2 ticks) no signal fires and no order is emitted for
\* it, and get_crossover_data never reads a missing element.
C9_NoSignalBeforeReady ==
    /\ raised # "IndexError"
    /\ "BANANAS" \in DOMAIN fired =>
           /\ Len(large_ask_averages["BANANAS"]) < window_size_small =>
                  /\ ~fired["BANANAS"].buy
                  /\ bought(result[1]["BANANAS"]) = 0
           /\ Len(large_bid_averages["BANANAS"]) < window_size_small =>
                  /\ ~fired["BANANAS"].sell
                  /\ sold(result[1]["BANANAS"]) = 0
    /\ (nticks <= window_size_large + window_size_small - 2 /\ Returned("BANANAS")) =>
           result[1]["BANANAS"] = <<>>

\* the last tick before the signals are ready: averages exist, one short of
\* window_size_small, and the tick emitted nothing
C9_Witness ==
    /\ Returned("BANANAS")
    /\ nticks = window_size_large + window_size_small - 2
    /\ Len(large_ask_averages["BANANAS"]) = window_size_small - 1
    /\ Len(large_bid_averages["BANANAS"]) = window_size_small - 1
    /\ result[1]["BANANAS"] = <<>>

\* C10: from one tick to the next the stored ask floor of an instrument never
\* increases and its stored bid ceiling never decreases.
C10_FloorCeilingMonotone ==
    [][/\ \A product \in DOMAIN ask_price :
              /\ product \in DOMAIN ask_price'
              /\ ask_price'[product] <= ask_price[product]
       /\ \A product \in DOMAIN bid_price :
              /\ product \in DOMAIN bid_price'
              /\ bid_price'[product] >= bid_price[product]]_vars

\* a later snapshot showed a wider spread than the stored floor and ceiling
C10_Witness ==
    /\ state # None
    /\ raised = "none"
    /\ \E i \in DOMAIN state[1].order_depths :
           LET product == state[1].order_depths[i][1]
               depth == state[1].order_depths[i][2]
           IN  /\ min_key(depth.sell_orders) > ask_price[product]
               /\ max_key(depth.buy_orders) < bid_price[product]

\* a call is under way and its snapshot holds `product`
InSnapshot(product) ==
    /\ state # None
    /\ \E i \in DOMAIN state[1].order_depths : state[1].order_depths[i][1] = product

\* C11: on every PEARLS tick, when the stored ask floor is below the stored
\* bid ceiling after the tick's update exactly one buy at the floor for
\* limit - position and one sell at the ceiling for limit + position are
\* emitted, and otherwise no order is emitted for PEARLS.
C11_PearlsOrders ==
    (InSnapshot("PEARLS") /\ Returned("PEARLS")) =>
        IF ask_price["PEARLS"] < bid_price["PEARLS"]
        THEN /\ Len(result[1]["PEARLS"]) = 2
             /\ {result[1]["PEARLS"][1], result[1]["PEARLS"][2]}
                    = {Order("PEARLS", ask_price["PEARLS"],
                             LimitOf("PEARLS") - PositionOf("PEARLS")),
                       Order("PEARLS", bid_price["PEARLS"],
                             -(LimitOf("PEARLS") + PositionOf("PEARLS")))}
        ELSE result[1]["PEARLS"] = <<>>

\* the sums of price * quantity and of quantity over a side, level by level
\* from the lowest price up
RECURSIVE SideTotals(_, _)
SideTotals(orders, keys) ==
    IF keys = {} THEN <<0, 0>>
    ELSE LET price == CHOOSE k \in keys : \A j \in keys : k <= j
             rest == SideTotals(orders, keys \ {price})
         IN  <<rest[1] + price * orders[price], rest[2] + orders[price]>>

\* v is 0 when the side's quantities sum to 0, and otherwise the rational
\* sum(price * quantity) / sum(quantity)
IsVwapOf(v, orders) ==
    LET t == SideTotals(orders, DOMAIN orders)
    IN  /\ v # "ZeroDivisionError"
        /\ v \in Int \X (Nat \ {0})
        /\ IF t[2] = 0 THEN v[1] = 0 ELSE v[1] * t[2] = t[1] * v[2]

\* the side get_vwap was called on
VwapSide ==
    IF book_pc = "vwap_buy" THEN book_depth[1].buy_orders
    ELSE book_depth[1].sell_orders

\* C12: get_vwap returns 0 whenever the quantities of the side sum to 0
\* (empty book, all quantities 0, cancelling quantities), otherwise
\* sum(price * quantity) / sum(quantity), and never divides by zero; in
\* trader.py and in utils.py alike.
C12_VwapZeroGuard ==
    book_pc \in {"vwap_buy", "vwap_sell"} =>
        /\ IsVwapOf(book_out[1].trader, VwapSide)
        /\ IsVwapOf(book_out[1].util, VwapSide)

\* a side whose two non-zero quantities cancel: the value is 0
C12_Witness ==
    /\ book_pc = "vwap_sell"
    /\ DOMAIN book_depth[1].sell_orders = HelperPrices
    /\ \A price \in HelperPrices : book_depth[1].sell_orders[price] # 0
    /\ SideTotals(book_depth[1].sell_orders, HelperPrices)[2] = 0
    /\ book_out[1].trader = <<0, 1>>

\* a VWAP of 0 lies in the windows of the last two long averages of a series
ZeroInWindows(prices) ==
    \E i \in DOMAIN prices :
        /\ i >= Len(prices) - window_size_large
        /\ prices[i][1] = 0

\* C13: a VWAP of 0 (an empty or zero-volume side) is never in a
\* moving-average window that a crossover comparison uses, so it cannot make
\* a buy or a sell signal fire: no signal fires on a comparison whose windows
\* hold a VWAP of 0.
C13_ZeroVwapUnused ==
    "BANANAS" \in DOMAIN fired =>
        /\ fired["BANANAS"].buy => ~ZeroInWindows(vwap_ask_prices["BANANAS"])
        /\ fired["BANANAS"].sell => ~ZeroInWindows(vwap_bid_prices["BANANAS"])

\* the sum prices[from] + ... + prices[to] as a fraction <<num, den>>
RECURSIVE Total(_, _, _)
Total(prices, from, to) ==
    IF from > to THEN <<0, 1>>
    ELSE LET t == Total(prices, from + 1, to)
         IN  <<prices[from][1] * t[2] + t[1] * prices[from][2],
               prices[from][2] * t[2]>>

\* a is the mean of the w prices that end at index `last`
IsMeanOf(a, prices, last, w) ==
    LET t == Total(prices, last - w + 1, last)
    IN  a[1] * t[2] * w = t[1] * a[2]

\* the stored averages of one instrument and side are those recomputed from
\* its stored prices alone
Recomputed(prices, large_averages, small_averages) ==
    /\ Len(large_averages) = max2(0, Len(prices) - window_size_large + 1)
    /\ Len(small_averages) = Len(large_averages)
    /\ \A k \in DOMAIN large_averages :
           /\ IsMeanOf(large_averages[k], prices,
                       window_size_large - 1 + k, window_size_large)
           /\ IsMeanOf(small_averages[k], prices,
                       window_size_large - 1 + k, window_size_small)

\* C14: after any sequence of observations the stored short and long average
\* series equal, element for element, the series recomputed from the stored
\* price series: entry k is the mean of the window-size prices that end at
\* price index window_size_large - 1 + k.
C14_AveragesRecomputable ==
    /\ \A product \in DOMAIN vwap_ask_prices :
           Recomputed(vwap_ask_prices[product], large_ask_averages[product],
                      small_ask_averages[product])
    /\ \A product \in DOMAIN vwap_bid_prices :
           Recomputed(vwap_bid_prices[product], large_bid_averages[product],
                      small_bid_averages[product])

\* two pairs of averages over prices that changed between the windows
C14_Witness ==
    /\ "BANANAS" \in DOMAIN vwap_ask_prices
    /\ Len(large_ask_averages["BANANAS"]) >= 2
    /\ large_ask_averages["BANANAS"][1] # large_ask_averages["BANANAS"][2]
    /\ small_ask_averages["BANANAS"][1] # small_ask_averages["BANANAS"][2]
    /\ small_ask_averages["BANANAS"][2] # large_ask_averages["BANANAS"][2]

\* the instruments of the snapshot of this tick
Instruments ==
    {state[1].order_depths[i][1] : i \in DOMAIN state[1].order_depths}

\* no instrument of the snapshot has an empty side
AllTwoSided ==
    \A i \in DOMAIN state[1].order_depths :
        /\ DOMAIN state[1].order_depths[i][2].buy_orders # {}
        /\ DOMAIN state[1].order_depths[i][2].sell_orders # {}

\* C15: for any set of instruments in the snapshot (the empty set and
\* instruments without a strategy too) Trader.run returns a mapping whose key
\* set is exactly the snapshot's instruments.  Stated for the snapshots in
\* which every book is two-sided.
C15_ResultKeysAreInstruments ==
    (state # None /\ AllTwoSided) =>
        /\ result # None
        /\ DOMAIN result[1] = Instruments

\* the book follows the sign convention: buy quantities above 0, sell
\* quantities below 0
Conventional(order_depth) ==
    /\ \A price \in DOMAIN order_depth.buy_orders : order_depth.buy_orders[price] > 0
    /\ \A price \in DOMAIN order_depth.sell_orders : order_depth.sell_orders[price] < 0

\* best is (price, magnitude of the quantity resting at price), where price
\* is the extreme key of the side as `extreme` selects it; absent on an
\* empty side
IsBestOf(best, side, extreme) ==
    IF DOMAIN side = {}
    THEN best = <<None, None>>
    ELSE /\ best[1] # None
         /\ best[1][1] \in DOMAIN side
         /\ \A price \in DOMAIN side : extreme * best[1][1] >= extreme * price
         /\ best[2] = Some(abs(side[best[1][1]]))

\* C16: get_best_bid returns the maximum buy price with its quantity,
\* get_best_ask the minimum sell price with its quantity as a positive
\* magnitude, each returns absent on an empty side, and trader.py and
\* utils.py return the same result for every book.  Stated for the books
\* that follow the sign convention.
C16_BestBidAskAgree ==
    (book_pc \in {"best_bid", "best_ask"} /\ Conventional(book_depth[1])) =>
        /\ book_out[1].trader = book_out[1].util
        /\ book_pc = "best_bid" =>
               IsBestOf(book_out[1].trader, book_depth[1].buy_orders, 1)
        /\ book_pc = "best_ask" =>
               IsBestOf(book_out[1].trader, book_depth[1].sell_orders, -1)

\* the one order a fired buy signal is to emit on this tick's book
SignalBuy(product) ==
    LET best_ask == min_key(DepthOf(product).sell_orders)
    IN  Order(product, best_ask,
              min2(abs(DepthOf(product).sell_orders[best_ask]),
                   LimitOf(product) - PositionOf(product)))

\* the one order a fired sell signal is to emit on this tick's book
SignalSell(product) ==
    LET best_bid == max_key(DepthOf(product).buy_orders)
    IN  Order(product, best_bid,
              -min2(DepthOf(product).buy_orders[best_bid],
                    LimitOf(product) + PositionOf(product)))

\* C17: on a BANANAS tick where the buy signal fires exactly one buy order is
\* emitted, at the tick's best ask for min(|best ask volume|, limit -
\* position); where the sell signal fires exactly one sell order, at the
\* tick's best bid with magnitude min(best bid volume, limit + position);
\* where neither fires no order is emitted.
C17_SignalOrders ==
    "BANANAS" \in DOMAIN fired =>
        LET orders == result[1]["BANANAS"]
        IN  /\ Len(orders) = (IF fired["BANANAS"].buy THEN 1 ELSE 0)
                               + (IF fired["BANANAS"].sell THEN 1 ELSE 0)
            /\ fired["BANANAS"].buy =>
                   \E i \in DOMAIN orders : orders[i] = SignalBuy("BANANAS")
            /\ fired["BANANAS"].sell =>
                   \E i \in DOMAIN orders : orders[i] = SignalSell("BANANAS")

\* the stored ask floor of `product` is below its stored bid ceiling
Latched(product) ==
    /\ product \in DOMAIN ask_price
    /\ product \in DOMAIN bid_price
    /\ ask_price[product] < bid_price[product]

\* the tick returned a buy at the stored floor and a sell at the stored
\* ceiling for `product`
EmittedBoth(product) ==
    /\ Returned(product)
    /\ \E i \in DOMAIN result[1][product] :
           /\ result[1][product][i].price = ask_price[product]
           /\ result[1][product][i].quantity >= 0
    /\ \E i \in DOMAIN result[1][product] :
           /\ result[1][product][i].price = bid_price[product]
           /\ result[1][product][i].quantity <= 0

\* C18: once the stored ask floor of an instrument is below its bid ceiling
\* it stays below on every later tick, and every later PEARLS tick emits the
\* buy and the sell order whatever the live book shows.
C18_FairValueLatch ==
    [][/\ \A product \in Products : Latched(product) => Latched(product)'
       /\ (Latched("PEARLS") /\ pc = "idle") =>
              (InSnapshot("PEARLS")' => EmittedBoth("PEARLS")')]_vars

\* no entry of the log s fires `signal` on two ticks in a row
NeverTwice(s, signal) ==
    \A i \in DOMAIN s : (i + 1 \in DOMAIN s) => ~(s[i][signal] /\ s[i + 1][signal])

\* between two ticks of the log s that fire `signal` lies a tick at which the
\* two averages are not in the order the signal fires on: long >= short for
\* the buy signal (sign 1), long <= short for the sell signal (sign -1)
Separated(s, signal, large_averages, small_averages, sign) ==
    \A i \in DOMAIN s : \A j \in DOMAIN s :
        (i < j /\ s[i][signal] /\ s[j][signal]) =>
            \E k \in DOMAIN s :
                /\ i < k /\ k < j
                /\ k - window_size_large + 1 \in DOMAIN large_averages
                /\ LET l == large_averages[k - window_size_large + 1]
                       m == small_averages[k - window_size_large + 1]
                   IN  sign * l[1] * m[2] >= sign * m[1] * l[2]

\* C19: the crossover signal is edge-triggered: on one instrument and side
\* buy_signal is never true on two consecutive ticks, and neither is
\* sell_signal; between two ticks on which the same signal fires there is a
\* tick at which the long and the short average are in the opposite order or
\* equal.
C19_EdgeTriggered ==
    \A product \in DOMAIN signals :
        /\ NeverTwice(signals[product], "buy")
        /\ NeverTwice(signals[product], "sell")
        /\ Separated(signals[product], "buy", large_ask_averages[product],
                     small_ask_averages[product], 1)
        /\ Separated(signals[product], "sell", large_bid_averages[product],
                     small_bid_averages[product], -1)

\* the buy signal fired on two ticks, two ticks apart
C19_Witness ==
    /\ "BANANAS" \in DOMAIN signals
    /\ \E i \in DOMAIN signals["BANANAS"] :
           /\ i + 2 \in DOMAIN signals["BANANAS"]
           /\ signals["BANANAS"][i].buy
           /\ ~signals["BANANAS"][i + 1].buy
           /\ signals["BANANAS"][i + 2].buy

\* the instruments of a snapshot st (none when no call is under way)
InstrumentsOf(st) ==
    IF st = None THEN {}
    ELSE {st[1].order_depths[i][1] : i \in DOMAIN st[1].order_depths}

\* the fields of the Trader that hold series, and all its per-instrument fields
SeriesFields ==
    {"vwap_bid_prices", "vwap_ask_prices", "large_ask_averages",
     "small_ask_averages", "large_bid_averages", "small_bid_averages"}
StoredFields == SeriesFields \cup {"ask_price", "bid_price"}

\* what the Trader `self` stores for `product`
StoredFor(self, product) ==
    [f \in StoredFields |->
        IF product \in DOMAIN self[f] THEN Some(self[f][product]) ELSE None]

IsPrefix(s, t) == Len(s) <= Len(t) /\ SubSeq(t, 1, Len(s)) = s

\* C20: processing one instrument in a tick leaves every other instrument's
\* stored state (ask floor, bid ceiling, price series, average series)
\* unchanged; series are created only for the crossover instrument, on its
\* first observation; existing entries of a series are never modified or
\* removed; a tick for a fair-value instrument appends nothing to any series.
C20_FrameEffects ==
    [][/\ \A product \in Products \ InstrumentsOf(state') :
              StoredFor(Self', product) = StoredFor(Self, product)
       /\ (state = None /\ state' # None /\ raised' = "none") =>
              \A i \in DOMAIN state'[1].order_depths :
                  StoredFor(Self', state'[1].order_depths[i][1])
                      = StoredFor(run_product(Self, state'[1].order_depths[i][1],
                                              state'[1].order_depths[i][2],
                                              state'[1].position).self,
                                  state'[1].order_depths[i][1])
       /\ \A f \in SeriesFields :
              /\ \A product \in DOMAIN Self'[f] \ DOMAIN Self[f] :
                     product = "BANANAS" /\ product \in InstrumentsOf(state')
              /\ \A product \in DOMAIN Self[f] :
                     /\ product \in DOMAIN Self'[f]
                     /\ IsPrefix(Self[f][product], Self'[f][product])
              /\ "BANANAS" \notin InstrumentsOf(state') => Self'[f] = Self[f]]_vars

\* a tick of PEARLS and BANANAS that appended to average series holding an
\* entry already and left a stored PEARLS floor below its ceiling
C20_Witness ==
    /\ InstrumentsOf(state) = {"PEARLS", "BANANAS"}
    /\ raised = "none"
    /\ Len(large_bid_averages["BANANAS"]) >= 2
    /\ Len(small_ask_averages["BANANAS"]) >= 2
    /\ ask_price["PEARLS"] < bid_price["PEARLS"]

====
